---- MODULE Spec2Model ----
(***************************************************************************)
(* Client-side runtime of the agent UI (pkg/microservice/ui-nextjs):       *)
(*   - AgentAPI.streamAgent, the decoder of the text event stream          *)
(*     (lib/api.ts), with the request/response calls beside it;            *)
(*   - buildSpanHierarchy, the builder of the span forest of a trace       *)
(*     (the trace detail viewer), and renderSpanTree, its traversal;       *)
(*   - the paginated lists of MemoryScreen, MemoryBrowser and TracesScreen *)
(*     with their calls in flight (getMemory, getTraces, deleteTrace).     *)
(* Text is modelled as a sequence of one-character strings, so that a      *)
(* chunk boundary can fall inside a field prefix or inside a line.         *)
(***************************************************************************)
EXTENDS Integers, Sequences, FiniteSets, TLC

VARIABLES
    stream,        \* the text the backend sends on the response body
    rest,          \* the part of stream the transport has not delivered yet
    buffer,        \* api.ts:130  let buffer = ''
    lines,         \* api.ts:137  the lines of the current chunk still to process
    currentEvent,  \* api.ts:142  let currentEvent = {}
    yielded,       \* what the generator has yielded: [data, closedAt]
    lineNo,        \* how many lines the for-loop has processed so far
    pc,            \* "start" | "read" | "yield" | "finished"
    exit,          \* how the generator finished ("none" while it runs)
    error,         \* the error thrown to the consumer, or None
    status,        \* the HTTP status of the stream response (0 before fetch)
    readerAcquired,\* api.ts:122  response.body.getReader() returned a reader
    locked,        \* the body's read handle is locked by the reader
    lastCall,      \* outcome of the latest request/response call, or NoCall
    spans,         \* input of buildSpanHierarchy (trace.spans)
    spanMap,       \* spanMap: id -> node [span, children]; a child is held
                   \* by reference, written as the key of its node
    rootSpans,     \* rootSpans, as the keys of the nodes
    tpc,           \* position in buildSpanHierarchy
    ti,            \* index of the forEach in progress
    visited,       \* the nodes renderSpanTree rendered, in call order
    screen,        \* the component that is mounted, "none" when none is
    backend,       \* what the backend of this run may answer
    lastResponse,  \* the response the latest completed fetch delivered
    \* memory-screen.tsx
    conversations,           \* line 15
    conversationsLoading,    \* line 16
    selectedConversationId,  \* line 19
    messages,                \* line 20
    messagesLoading,         \* line 21
    messagesTotal,           \* line 22
    messagesOffset,          \* line 23
    memoryError,             \* line 27  error
    memoryRequests,          \* the getMemory / getConversationMessages calls in flight
    \* memory-browser.tsx
    open,                    \* line 20  the open prop
    entries,                 \* line 25
    browserLoading,          \* line 28  loading
    browserPagination,       \* lines 30-34  pagination
    browserRequests,         \* the getMemory calls in flight
    appended,                \* <<the list the latest load-more left>>, <<>>
                             \* before one and after the next user action
    \* traces-screen.tsx
    traces,                  \* line 31
    tracesLoading,           \* line 33  loading
    tracesError,             \* line 34  error
    tracesPagination,        \* lines 39-43  pagination
    tracesRequests,          \* the getTraces / deleteTrace calls in flight
    backendTraces,           \* the ids of the traces the backend holds
    deleteClicks,            \* how many deletions the user has asked for
    settled                  \* <<the id and the total of the latest deletion
                             \* whose re-fetch was applied>>, <<>> before one
                             \* and after the next user action

streamVars == <<stream, rest, buffer, lines, currentEvent, yielded, lineNo,
                pc, exit, error, status, readerAcquired, locked>>
treeVars == <<spans, spanMap, rootSpans, tpc, ti, visited>>
memoryVars == <<conversations, conversationsLoading, selectedConversationId,
                messages, messagesLoading, messagesTotal, messagesOffset,
                memoryError, memoryRequests>>
browserVars == <<open, entries, browserLoading, browserPagination, browserRequests,
                 appended>>
tracesVars == <<traces, tracesLoading, tracesError, tracesPagination,
                tracesRequests, backendTraces, deleteClicks, settled>>
uiVars == <<screen, backend, lastResponse, memoryVars, browserVars, tracesVars>>
vars == <<streamVars, lastCall, treeVars, uiVars>>

----------------------------------------------------------------------------
(* Bounds *)

MaxLines == 4      \* lines in a stream
MaxSpans == 3      \* spans in a trace

----------------------------------------------------------------------------
(* Text helpers: String.prototype.startsWith / slice / split('\n') *)

NL == "\n"

None == [t |-> "undefined", v |-> 0]

StartsWith(s, p) == Len(s) >= Len(p) /\ SubSeq(s, 1, Len(p)) = p

Slice(s, n) == SubSeq(s, n + 1, Len(s))

\* text.split('\n'): n newlines give n+1 parts, the last one the text after
\* the last newline (possibly empty)
Split(text) ==
    LET acc[i \in 0..Len(text)] ==
            IF i = 0 THEN << <<>> >>
            ELSE LET p == acc[i - 1] IN
                 IF text[i] = NL THEN Append(p, <<>>)
                 ELSE [p EXCEPT ![Len(p)] = Append(@, text[i])]
    IN acc[Len(text)]

Front(s) == SubSeq(s, 1, Len(s) - 1)

Last(s) == s[Len(s)]

\* lines.join('\n') + '\n' for each line: the wire form of a list of lines
RECURSIVE Wire(_)
Wire(ls) == IF ls = <<>> THEN <<>> ELSE Head(ls) \o <<NL>> \o Wire(Tail(ls))

----------------------------------------------------------------------------
(* Field prefixes and the sentinel, api.ts:145-158 *)

EventPrefix == <<"e", "v", "e", "n", "t", ":", " ">>
DataPrefix  == <<"d", "a", "t", "a", ":", " ">>
IdPrefix    == <<"i", "d", ":", " ">>
DoneText    == <<"[", "D", "O", "N", "E", "]">>

----------------------------------------------------------------------------
(* JSON.parse, restricted to the payload texts the model sends: a natural  *)
(* number literal, {}, [], false, null and "". Any other text over the     *)
(* model's alphabet that the model sends is a SyntaxError.                 *)

Digits == {"0", "1", "2", "3", "4", "5", "6", "7", "8", "9"}

DigitVal(c) ==
    CASE c = "0" -> 0 [] c = "1" -> 1 [] c = "2" -> 2 [] c = "3" -> 3
      [] c = "4" -> 4 [] c = "5" -> 5 [] c = "6" -> 6 [] c = "7" -> 7
      [] c = "8" -> 8 [] c = "9" -> 9

IsNumberText(s) ==
    /\ Len(s) >= 1
    /\ \A i \in 1..Len(s) : s[i] \in Digits
    /\ (Len(s) > 1 => s[1] # "0")

RECURSIVE NumberVal(_)
NumberVal(s) == IF s = <<>> THEN 0 ELSE 10 * NumberVal(Front(s)) + DigitVal(Last(s))

\* The JSON texts false, null and "" (the empty string, whose value is
\* written with v the number of its characters)
FalseText == <<"f", "a", "l", "s", "e">>
NullText == <<"n", "u", "l", "l">>
EmptyStringText == <<"\"", "\"">>

JSONParse(s) ==
    IF IsNumberText(s) THEN [ok |-> TRUE, value |-> [t |-> "number", v |-> NumberVal(s)]]
    ELSE IF s = <<"{", "}">> THEN [ok |-> TRUE, value |-> [t |-> "object", v |-> 0]]
    ELSE IF s = <<"[", "]">> THEN [ok |-> TRUE, value |-> [t |-> "array", v |-> 0]]
    ELSE IF s = FalseText THEN [ok |-> TRUE, value |-> [t |-> "boolean", v |-> 0]]
    ELSE IF s = NullText THEN [ok |-> TRUE, value |-> [t |-> "null", v |-> 0]]
    ELSE IF s = EmptyStringText THEN [ok |-> TRUE, value |-> [t |-> "string", v |-> 0]]
    ELSE [ok |-> FALSE, value |-> None]

\* Truthy testing only that a payload was parsed
TruthyParsed(x) == x # None

\* JavaScript truthiness of currentEvent.data (api.ts:161): undefined, the
\* number 0, false, null and the empty string are falsy, objects and arrays
\* are truthy
Truthy(x) ==
    /\ x # None
    /\ ~(x.t \in {"number", "boolean", "string"} /\ x.v = 0)
    /\ x.t # "null"

----------------------------------------------------------------------------
(* The body of the for-loop, api.ts:144-166 *)

EmptyEvent == [event |-> None, data |-> None, id |-> None]

Str(s) == [t |-> "string", v |-> s]

\* LineStep with the sentinel test of api.ts:149 left out: [DONE] goes to
\* JSON.parse like any other payload
LineStepNoSentinel(ev, line) ==
    IF StartsWith(line, EventPrefix)
    THEN [ev |-> [ev EXCEPT !.event = Str(Slice(line, 7))], out |-> "field"]
    ELSE IF StartsWith(line, DataPrefix)
    THEN LET r == JSONParse(Slice(line, 6)) IN
         IF r.ok THEN [ev |-> [ev EXCEPT !.data = r.value], out |-> "field"]
         ELSE [ev |-> ev, out |-> "warn"]
    ELSE IF StartsWith(line, IdPrefix)
    THEN [ev |-> [ev EXCEPT !.id = Str(Slice(line, 4))], out |-> "field"]
    ELSE IF line = <<>>
    THEN IF Truthy(ev.data) THEN [ev |-> ev, out |-> "yield"]
         ELSE [ev |-> ev, out |-> "skip"]
    ELSE [ev |-> ev, out |-> "skip"]

\* LineStep storing the value of an id: line as the payload
LineStepIdAsData(ev, line) ==
    IF StartsWith(line, IdPrefix)
    THEN [ev |-> [ev EXCEPT !.id = Str(Slice(line, 4)), !.data = [t |-> "number", v |-> 7]],
          out |-> "field"]
    ELSE LineStepNoSentinel(ev, line)

\* LineStep whose failed parse clears the payload of the record
LineStepParseClears(ev, line) ==
    IF StartsWith(line, DataPrefix) /\ Slice(line, 6) # DoneText
       /\ ~JSONParse(Slice(line, 6)).ok
    THEN [ev |-> [ev EXCEPT !.data = None], out |-> "warn"]
    ELSE LineStepNoSentinel(ev, line)

\* One iteration of `for (const line of lines)`: the event after it and what
\* the iteration did ("return" at the sentinel, "yield" at a blank line that
\* closes an event with truthy data)
LineStep(ev, line) ==
    IF StartsWith(line, EventPrefix)
    THEN [ev |-> [ev EXCEPT !.event = Str(Slice(line, 7))], out |-> "field"]
    ELSE IF StartsWith(line, DataPrefix)
    THEN LET dataStr == Slice(line, 6) IN
         IF dataStr = DoneText
         THEN [ev |-> ev, out |-> "return"]
         ELSE LET r == JSONParse(dataStr) IN
              IF r.ok THEN [ev |-> [ev EXCEPT !.data = r.value], out |-> "field"]
              ELSE [ev |-> ev, out |-> "warn"]
    ELSE IF StartsWith(line, IdPrefix)
    THEN [ev |-> [ev EXCEPT !.id = Str(Slice(line, 4))], out |-> "field"]
    ELSE IF line = <<>>
    THEN IF Truthy(ev.data) THEN [ev |-> ev, out |-> "yield"]
         ELSE [ev |-> ev, out |-> "skip"]
    ELSE [ev |-> ev, out |-> "skip"]

\* AfterYield with the reset of api.ts:163 left out
AfterYieldKept(ev) == ev

\* api.ts:163  currentEvent = {} when the generator is resumed after a yield
AfterYield(ev) == EmptyEvent

\* The for-loop from its current position to the next suspension point: the
\* end of the lines (back to reader.read), a yield, or the sentinel's return
RECURSIVE RunLines(_, _, _)
RunLines(ev, ls, n) ==
    IF ls = <<>> THEN [out |-> "end", ev |-> ev, lines |-> ls, lineNo |-> n]
    ELSE LET r == LineStep(ev, Head(ls)) IN
         IF r.out \in {"return", "yield"}
         THEN [out |-> r.out, ev |-> r.ev, lines |-> Tail(ls), lineNo |-> n + 1]
         ELSE RunLines(r.ev, Tail(ls), n + 1)

----------------------------------------------------------------------------
(* The streams the backend may send: up to MaxLines lines, each followed by *)
(* a newline.                                                               *)

D1    == DataPrefix \o <<"1">>          \* data: 1      (valid, truthy)
D2    == DataPrefix \o <<"2">>          \* data: 2      (valid, truthy)
D0    == DataPrefix \o <<"0">>          \* data: 0      (valid, falsy)
DX    == DataPrefix \o <<"{">>          \* data: {      (not valid JSON)
DONE  == DataPrefix \o DoneText         \* data: [DONE]
ID7   == IdPrefix \o <<"7">>            \* id: 7
EVm   == EventPrefix \o <<"m">>         \* event: m
DFalse == DataPrefix \o FalseText      \* data: false  (valid, falsy)
DNull == DataPrefix \o NullText        \* data: null   (valid, falsy)
DEmpty == DataPrefix \o EmptyStringText \* data: ""     (valid, falsy)
BLANK == <<>>

\* The lines of the decoding claims: data lines that parse to a truthy and to
\* a falsy value, one that does not parse, the sentinel and the blank line
CoreVocab == {D1, D0, DX, DONE, BLANK}

\* The lines of the ordering claim: two distinguishable payloads
OrderVocab == {D1, D2, D0, BLANK}

\* The lines of the claims about falsy payloads: every falsy JSON value, a
\* truthy one, the sentinel and the blank line
FalsyVocab == {D0, DFalse, DNull, DEmpty, D1, DONE, BLANK}

\* The lines of the claim about id: and event: lines
FieldVocab == {D1, ID7, EVm, BLANK}

\* The lines of the claim about the data lines of one record: two payloads
\* and a data line that does not parse
PayloadVocab == {D1, D2, DX, BLANK}

LineSeqs(V) == UNION {[1..n -> V] : n \in 0..MaxLines}

\* Streams of the largest vocabulary are one line shorter
ShortStreams(V) == {Wire(ls) : ls \in UNION {[1..n -> V] : n \in 0..(MaxLines - 1)}}

Streams(V) == {Wire(ls) : ls \in LineSeqs(V)}

\* HTTP statuses of the stream response; Response.ok is status in 200..299
StreamStatuses == {200, 404, 500}

ResponseOk(st) == st >= 200 /\ st <= 299

----------------------------------------------------------------------------
(* AgentAPI.streamAgent, api.ts:108-171 *)

\* ReleaseLock with releaseLock() placed after the loop instead of in a
\* finally block: only the break out of the loop reaches it
ReleaseLockNoFinally(how, l) == IF how = "eof" THEN FALSE ELSE l

\* finally { reader.releaseLock() }, api.ts:168-170: runs on every way out of
\* the try block
ReleaseLock(how, l) == FALSE

\* ReadDoneExit with the end of the transport treated as a failure
ReadDoneThrows == [exit |-> "eof", error |-> [t |-> "Unexpected end of stream", v |-> 0]]

\* What `if (done) break` leads to, api.ts:134: the generator completes
ReadDoneExit == [exit |-> "eof", error |-> None]

StreamIdle ==
    /\ rest = <<>> /\ buffer = <<>> /\ lines = <<>>
    /\ currentEvent = EmptyEvent /\ yielded = <<>> /\ lineNo = 0
    /\ exit = "none" /\ error = None /\ status = 0
    /\ readerAcquired = FALSE /\ locked = FALSE

\* The first next(): fetch, the status check and getReader, api.ts:109-130
Start ==
    /\ pc = "start"
    /\ \E st \in StreamStatuses, hasBody \in BOOLEAN :
        /\ status' = st
        /\ IF ~ResponseOk(st)
           THEN /\ pc' = "finished" /\ exit' = "http"
                /\ error' = [t |-> "Stream Error", v |-> st]
                /\ UNCHANGED <<readerAcquired, locked, rest>>
           ELSE IF ~hasBody
           THEN /\ pc' = "finished" /\ exit' = "nobody"
                /\ error' = [t |-> "No response body reader available", v |-> 0]
                /\ UNCHANGED <<readerAcquired, locked, rest>>
           ELSE /\ pc' = "read" /\ rest' = stream
                /\ readerAcquired' = TRUE /\ locked' = TRUE
                /\ UNCHANGED <<exit, error>>
    /\ UNCHANGED <<stream, buffer, lines, currentEvent, yielded, lineNo>>
    /\ UNCHANGED <<lastCall, treeVars, uiVars>>

\* The for-loop ran to its next suspension point with result run
Suspend(run) ==
    /\ lines' = run.lines
    /\ lineNo' = run.lineNo
    /\ CASE run.out = "end" ->
              \* back to `await reader.read()`; currentEvent goes out of scope
              /\ pc' = "read" /\ currentEvent' = EmptyEvent
              /\ UNCHANGED <<yielded, exit, locked>>
         [] run.out = "yield" ->
              /\ pc' = "yield" /\ currentEvent' = run.ev
              /\ yielded' = Append(yielded, [data |-> run.ev.data, closedAt |-> run.lineNo])
              /\ UNCHANGED <<exit, locked>>
         [] run.out = "return" ->
              /\ pc' = "finished" /\ exit' = "sentinel" /\ currentEvent' = run.ev
              /\ locked' = ReleaseLock("sentinel", locked)
              /\ UNCHANGED yielded
    /\ UNCHANGED <<stream, error, status, readerAcquired>>
    /\ UNCHANGED <<lastCall, treeVars, uiVars>>

\* AppendChunk forgetting what the buffer held
AppendChunkDropsBuffer(buf, chunk) == chunk

\* api.ts:136  buffer += decoder.decode(value, { stream: true })
AppendChunk(buf, chunk) == buf \o chunk

\* reader.read() resolves with a chunk of k characters, api.ts:133-166. The
\* stream is ASCII, so decoder.decode(value, {stream: true}) gives one
\* character per byte and holds nothing back
ReadChunk ==
    /\ pc = "read"
    /\ \E k \in 1..Len(rest) :
        LET chunk == SubSeq(rest, 1, k)
            parts == Split(AppendChunk(buffer, chunk))
        IN /\ rest' = Slice(rest, k)
           /\ buffer' = Last(parts)
           /\ Suspend(RunLines(EmptyEvent, Front(parts), lineNo))

\* The consumer asks for the next record after a yield, api.ts:162-163
Resume ==
    /\ pc = "yield"
    /\ Suspend(RunLines(AfterYield(currentEvent), lines, lineNo))
    /\ UNCHANGED <<rest, buffer>>

\* reader.read() resolves with done: true, api.ts:134
ReadDone ==
    /\ pc = "read" /\ rest = <<>>
    /\ pc' = "finished"
    /\ exit' = ReadDoneExit.exit /\ error' = ReadDoneExit.error
    /\ locked' = ReleaseLock("eof", locked)
    /\ UNCHANGED <<stream, rest, buffer, lines, currentEvent, yielded, lineNo,
                   status, readerAcquired>>
    /\ UNCHANGED <<lastCall, treeVars, uiVars>>

\* reader.read() rejects: the transport failed, api.ts:133
ReadError ==
    /\ pc = "read"
    /\ pc' = "finished" /\ exit' = "readerror"
    /\ error' = [t |-> "TransportError", v |-> 0]
    /\ locked' = ReleaseLock("readerror", locked)
    /\ UNCHANGED <<stream, rest, buffer, lines, currentEvent, yielded, lineNo,
                   status, readerAcquired>>
    /\ UNCHANGED <<lastCall, treeVars, uiVars>>

\* The consumer leaves its for-await loop: return() at the yield, api.ts:162
ConsumerReturn ==
    /\ pc = "yield"
    /\ pc' = "finished" /\ exit' = "return"
    /\ locked' = ReleaseLock("return", locked)
    /\ UNCHANGED <<stream, rest, buffer, lines, currentEvent, yielded, lineNo,
                   error, status, readerAcquired>>
    /\ UNCHANGED <<lastCall, treeVars, uiVars>>

\* The consumer throws into the generator at the yield, api.ts:162
ConsumerThrow ==
    /\ pc = "yield"
    /\ pc' = "finished" /\ exit' = "throw"
    /\ error' = [t |-> "ConsumerError", v |-> 0]
    /\ locked' = ReleaseLock("throw", locked)
    /\ UNCHANGED <<stream, rest, buffer, lines, currentEvent, yielded, lineNo,
                   status, readerAcquired>>
    /\ UNCHANGED <<lastCall, treeVars, uiVars>>

----------------------------------------------------------------------------
(* The request/response calls, api.ts:26-46, 174-180, 191-199 *)

\* The fields of a call's outcome: the operation, the response status, whether
\* the call returned or threw, the payload returned and the error thrown
NoCall == [op |-> "none", httpStatus |-> 0, outcome |-> "none", payload |-> "", thrown |-> None]

ApiStatuses == {199, 200, 204, 299, 300, 404, 500}
ApiBodies == {"bodyA", "bodyB"}

Returned(op, st, body) ==
    [op |-> op, httpStatus |-> st, outcome |-> "returned", payload |-> body, thrown |-> None]

Thrown(op, st, msg) ==
    [op |-> op, httpStatus |-> st, outcome |-> "thrown", payload |-> "",
     thrown |-> [t |-> msg, v |-> st]]

\* api.ts:26-32
GetResult(st, body) ==
    IF ~ResponseOk(st) THEN Thrown("get", st, "API Error") ELSE Returned("get", st, body)

\* api.ts:34-46
PostResult(st, body) ==
    IF ~ResponseOk(st) THEN Thrown("post", st, "API Error") ELSE Returned("post", st, body)

\* deleteTrace without the status check of api.ts:195-197
DeleteTraceUnchecked(st, body) == Returned("deleteTrace", st, body)

\* api.ts:191-199
DeleteTraceResult(st, body) ==
    IF ~ResponseOk(st) THEN Thrown("deleteTrace", st, "Delete trace failed")
    ELSE Returned("deleteTrace", st, body)

\* api.ts:174-180
HealthResult(st, body) ==
    IF ~ResponseOk(st) THEN Thrown("health", st, "Health check failed")
    ELSE Returned("health", st, body)

ApiCall(result) ==
    /\ lastCall' = result
    /\ UNCHANGED <<streamVars, treeVars, uiVars>>

ApiGet == \E st \in ApiStatuses, body \in ApiBodies : ApiCall(GetResult(st, body))

ApiPost == \E st \in ApiStatuses, body \in ApiBodies : ApiCall(PostResult(st, body))

ApiDeleteTrace ==
    \E st \in ApiStatuses, body \in ApiBodies : ApiCall(DeleteTraceResult(st, body))

ApiHealth == \E st \in ApiStatuses, body \in ApiBodies : ApiCall(HealthResult(st, body))

----------------------------------------------------------------------------
(* buildSpanHierarchy, the trace detail viewer, lines 95-115 *)

\* parent_id: null, the empty string, or an id. Null stands for JavaScript's
\* null, which is no string; Missing is an id no span of the trace has.
Null == "<null>"
Missing == "zz"
IdPool == <<"a", "b", "c", "d", "e", "f">>
SpanIds == {IdPool[i] : i \in 1..MaxSpans}
ParentIds == {Null, ""} \cup SpanIds \cup {Missing}

UITraceSpan == [id : SpanIds, parent_id : ParentIds]

\* The span lists of a trace: ids unique within the trace
SpanLists ==
    {l \in UNION {[1..n -> UITraceSpan] : n \in 0..MaxSpans} :
        \A i, j \in 1..Len(l) : i # j => l[i].id # l[j].id}

\* Map.prototype.set
MapSet(m, k, v) == [x \in DOMAIN m \cup {k} |-> IF x = k THEN v ELSE m[x]]

\* IsChild with a span naming itself as parent treated as a root
IsChildNotSelf(span, map) ==
    /\ span.parent_id # Null /\ span.parent_id # ""
    /\ span.parent_id \in DOMAIN map
    /\ span.parent_id # span.id

\* IsChild without the spanMap.has test
IsChildAnyParent(span, map) ==
    /\ span.parent_id # Null /\ span.parent_id # ""

\* PushChild at the head of the children list
PushChildFront(map, parent, child) ==
    [map EXCEPT ![parent].children = <<child>> \o @]

\* line 107: span.parent_id && spanMap.has(span.parent_id)
IsChild(span, map) ==
    /\ span.parent_id # Null /\ span.parent_id # ""
    /\ span.parent_id \in DOMAIN map

\* PushChild pushing the node twice
PushChildTwice(map, parent, child) ==
    [map EXCEPT ![parent].children = @ \o <<child, child>>]

\* PushChild with the children list assigned instead of appended to
PushChildAssign(map, parent, child) ==
    [map EXCEPT ![parent].children = <<child>>]

\* line 108: spanMap.get(span.parent_id)!.children.push(spanWithChildren)
PushChild(map, parent, child) ==
    [map EXCEPT ![parent].children = Append(@, child)]

\* lines 100-102, one iteration of the first forEach
InitSpan ==
    /\ tpc = "init" /\ ti <= Len(spans)
    /\ spanMap' = MapSet(spanMap, spans[ti].id, [span |-> spans[ti], children |-> <<>>])
    /\ ti' = ti + 1
    /\ UNCHANGED <<spans, rootSpans, tpc, visited>>
    /\ UNCHANGED <<streamVars, lastCall, uiVars>>

\* the first forEach is over, the second begins
BeginBuild ==
    /\ tpc = "init" /\ ti > Len(spans)
    /\ tpc' = "build" /\ ti' = 1
    /\ UNCHANGED <<spans, spanMap, rootSpans, visited>>
    /\ UNCHANGED <<streamVars, lastCall, uiVars>>

\* lines 105-112, one iteration of the second forEach
LinkSpan ==
    /\ tpc = "build" /\ ti <= Len(spans)
    /\ LET span == spans[ti]
           spanWithChildren == span.id
       IN IF IsChild(span, spanMap)
          THEN /\ spanMap' = PushChild(spanMap, span.parent_id, spanWithChildren)
               /\ UNCHANGED rootSpans
          ELSE /\ rootSpans' = Append(rootSpans, spanWithChildren)
               /\ UNCHANGED spanMap
    /\ ti' = ti + 1
    /\ UNCHANGED <<spans, tpc, visited>>
    /\ UNCHANGED <<streamVars, lastCall, uiVars>>

\* line 114: return rootSpans
ReturnRoots ==
    /\ tpc = "build" /\ ti > Len(spans)
    /\ tpc' = "done"
    /\ UNCHANGED <<spans, spanMap, rootSpans, ti, visited>>
    /\ UNCHANGED <<streamVars, lastCall, uiVars>>

\* renderSpanTree with the children rendered before their parent
RECURSIVE RenderSpanTreePostOrder(_, _, _)
RenderSpanTreePostOrder(map, list, level) ==
    IF list = <<>> THEN <<>>
    ELSE LET span == Head(list)
         IN (IF Len(map[span].children) > 0
                THEN RenderSpanTreePostOrder(map, map[span].children, level + 1)
                ELSE <<>>)
            \o <<[id |-> span, level |-> level]>>
            \o RenderSpanTreePostOrder(map, Tail(list), level)

\* lines 117-262: spans.map renders each span of the list in turn; the
\* element of a span holds its card (lines 124-150) and after it, line 257,
\* renderSpanTree(span.children, level + 1) when there are children
RECURSIVE RenderSpanTree(_, _, _)
RenderSpanTree(map, list, level) ==
    IF list = <<>> THEN <<>>
    ELSE LET span == Head(list)
         IN <<[id |-> span, level |-> level]>>
            \o (IF Len(map[span].children) > 0
                THEN RenderSpanTree(map, map[span].children, level + 1)
                ELSE <<>>)
            \o RenderSpanTree(map, Tail(list), level)

\* lines 264 and 366: renderSpanTree(spanHierarchy), level = 0
RenderTimeline ==
    /\ tpc = "done"
    /\ visited' = RenderSpanTree(spanMap, rootSpans, 0)
    /\ tpc' = "rendered"
    /\ UNCHANGED <<spans, spanMap, rootSpans, ti>>
    /\ UNCHANGED <<streamVars, lastCall, uiVars>>

----------------------------------------------------------------------------
(* The list endpoints seen from the client: requests in flight and the     *)
(* responses get() resolves to, api.ts lines 26-32, 86-92 and 183-185      *)

\* A call in flight: what it asks about (a conversation, a trace, or
\* nothing) and the limit and offset it passes
Call(kind, about, limit, offset) ==
    [kind |-> kind, about |-> about, limit |-> limit, offset |-> offset]

\* The object of useState({ limit, offset, total })
Pagination(limit, offset, total) ==
    [limit |-> limit, offset |-> offset, total |-> total]

MaxInFlight == 2    \* calls in flight at a time
MaxOffset == 150    \* largest offset a page operation may move to

Absent == "<absent>"    \* a field the response does not have

\* The shapes of a MemoryResponse: the discriminator and the fields present
Shapes ==
    [mode : {"messages", "conversations", Absent},
     hasMessages : BOOLEAN,
     hasConversations : BOOLEAN,
     entriesField : {Absent, Null, "list"}]

MessagesShape ==
    [mode |-> "messages", hasMessages |-> TRUE, hasConversations |-> FALSE,
     entriesField |-> Absent]

ConversationsShape ==
    [mode |-> "conversations", hasMessages |-> FALSE, hasConversations |-> TRUE,
     entriesField |-> Absent]

\* The entries of the page a request asks for, named after the request
PageOf(q) == <<<<q.about, q.offset, 1>>, <<q.about, q.offset, 2>>>>

\* The same page in the entries field of the older response shape
LegacyPageOf(q) == <<<<q.about, q.offset, 0>>>>

ConversationList == <<"cA", "cB">>

\* A response: its shape, and the value of each list field it has (written
\* <<>> for a field it does not have)
MemoryResponse(shape, q, total) ==
    [shape |-> shape,
     messages |-> IF shape.hasMessages THEN PageOf(q) ELSE <<>>,
     conversations |-> IF shape.hasConversations THEN ConversationList ELSE <<>>,
     entries |-> IF shape.entriesField = "list" THEN LegacyPageOf(q) ELSE <<>>,
     total |-> total]

\* api.ts:86 getMemory, api.ts:90 getConversationMessages
GetMemory(by, limit, offset) == Call(by, Absent, limit, offset)

GetConversationMessages(conversationId, limit, offset) ==
    Call("loadMessages", conversationId, limit, offset)

\* lastResponse holds <<>> or the one response delivered last
NoResponse == [by |-> "none", response |-> <<>>]

Remove(q, i) == SubSeq(q, 1, i - 1) \o SubSeq(q, i + 1, Len(q))

\* Math.ceil(total / limit) and Math.floor(offset / limit) + 1
TotalPages(total, limit) == (total + limit - 1) \div limit
CurrentPage(offset, limit) == (offset \div limit) + 1

\* Math.max(0, x)
Max0(x) == IF x > 0 THEN x ELSE 0

----------------------------------------------------------------------------
(* MemoryScreen, components/screens/memory-screen.tsx *)

messagesLimit == 50    \* line 24

notMemory == <<streamVars, lastCall, treeVars, screen, backend, browserVars, tracesVars>>

\* lines 35-45: loadMessages up to its await
LoadMessages(conversationId, offset) ==
    /\ messagesLoading' = TRUE
    /\ memoryError' = Null
    /\ memoryRequests' =
           Append(memoryRequests,
                  GetConversationMessages(conversationId, messagesLimit, offset))

\* lines 64-68: loadConversations up to its await
LoadConversations ==
    /\ conversationsLoading' = TRUE
    /\ memoryError' = Null
    /\ memoryRequests' = Append(memoryRequests, GetMemory("loadConversations", 100, 0))

\* line 151: the refresh button of the conversation list
RefreshConversations ==
    /\ screen = "memory"
    /\ ~conversationsLoading
    /\ Len(memoryRequests) < MaxInFlight
    /\ LoadConversations
    /\ UNCHANGED <<conversations, selectedConversationId, messages, messagesLoading,
                   messagesTotal, messagesOffset>>
    /\ UNCHANGED <<notMemory, lastResponse>>

\* lines 81-85 and 202: a click on a conversation of the list; the effect
\* of lines 58-62 calls loadMessages when the selection or the offset changed
HandleSelectConversation ==
    /\ screen = "memory"
    /\ \E conversationId \in {conversations[i] : i \in DOMAIN conversations} :
          LET changed == conversationId # selectedConversationId \/ messagesOffset # 0
          IN /\ changed => Len(memoryRequests) < MaxInFlight
             /\ selectedConversationId' = conversationId
             /\ messagesOffset' = 0
             /\ messages' = <<>>
             /\ IF changed
                THEN LoadMessages(conversationId, 0)
                ELSE UNCHANGED <<messagesLoading, memoryError, memoryRequests>>
    /\ UNCHANGED <<conversations, conversationsLoading, messagesTotal>>
    /\ UNCHANGED <<notMemory, lastResponse>>

\* lines 87-89: prev => prev + messagesLimit
HandleNextOffset(offset, limit) == offset + limit

\* HandlePrevOffset stepping back by one entry
PrevOffsetByOne(offset, limit) == Max0(offset - 1)

\* lines 91-93: prev => Math.max(0, prev - messagesLimit)
HandlePrevOffset(offset, limit) == Max0(offset - limit)

\* lines 236, 251, 267-268: the next button is rendered and enabled
MemoryNextEnabled ==
    /\ selectedConversationId # Null
    /\ TotalPages(messagesTotal, messagesLimit) > 1
    /\ ~(CurrentPage(messagesOffset, messagesLimit) = TotalPages(messagesTotal, messagesLimit)
         \/ messagesLoading)

\* lines 236, 251, 259-260: the previous button is rendered and enabled
MemoryPrevEnabled ==
    /\ selectedConversationId # Null
    /\ TotalPages(messagesTotal, messagesLimit) > 1
    /\ ~(CurrentPage(messagesOffset, messagesLimit) = 1 \/ messagesLoading)

\* A page operation moved the offset to next: the effect of lines 58-62
\* runs loadMessages if the offset changed
MemoryMoveTo(next) ==
    /\ messagesOffset' = next
    /\ IF next # messagesOffset
       THEN /\ Len(memoryRequests) < MaxInFlight
            /\ LoadMessages(selectedConversationId, next)
       ELSE UNCHANGED <<messagesLoading, memoryError, memoryRequests>>
    /\ UNCHANGED <<conversations, conversationsLoading, selectedConversationId,
                   messages, messagesTotal>>
    /\ UNCHANGED <<notMemory, lastResponse>>

\* a click on the next button
MemoryNextPage ==
    /\ screen = "memory"
    /\ MemoryNextEnabled
    /\ HandleNextOffset(messagesOffset, messagesLimit) <= MaxOffset
    /\ MemoryMoveTo(HandleNextOffset(messagesOffset, messagesLimit))

\* a click on the previous button
MemoryPrevPage ==
    /\ screen = "memory"
    /\ MemoryPrevEnabled
    /\ MemoryMoveTo(HandlePrevOffset(messagesOffset, messagesLimit))

\* lines 46-55: loadMessages after its await
MessagesArrive ==
    /\ screen = "memory"
    /\ \E i \in 1..Len(memoryRequests), shape \in backend.shapes, total \in backend.totals :
          LET response == MemoryResponse(shape, memoryRequests[i], total)
          IN /\ memoryRequests[i].kind = "loadMessages"
             /\ IF response.shape.mode = "messages" /\ response.shape.hasMessages
                THEN /\ messages' = response.messages
                     /\ messagesTotal' = response.total
                ELSE UNCHANGED <<messages, messagesTotal>>
             /\ messagesLoading' = FALSE
             /\ memoryRequests' = Remove(memoryRequests, i)
             /\ lastResponse' = [by |-> "loadMessages", response |-> <<response>>]
    /\ UNCHANGED <<conversations, conversationsLoading, selectedConversationId,
                   messagesOffset, memoryError>>
    /\ UNCHANGED notMemory

\* lines 50-54: getConversationMessages threw
MessagesFail ==
    /\ screen = "memory"
    /\ \E i \in 1..Len(memoryRequests) :
          /\ memoryRequests[i].kind = "loadMessages"
          /\ memoryRequests' = Remove(memoryRequests, i)
    /\ memoryError' = "API Error"
    /\ messagesLoading' = FALSE
    /\ UNCHANGED <<conversations, conversationsLoading, selectedConversationId,
                   messages, messagesTotal, messagesOffset>>
    /\ UNCHANGED <<notMemory, lastResponse>>

\* lines 69-78: loadConversations after its await
ConversationsArrive ==
    /\ screen = "memory"
    /\ \E i \in 1..Len(memoryRequests), shape \in backend.shapes, total \in backend.totals :
          LET response == MemoryResponse(shape, memoryRequests[i], total)
          IN /\ memoryRequests[i].kind = "loadConversations"
             /\ IF response.shape.mode = "conversations" /\ response.shape.hasConversations
                THEN conversations' = response.conversations
                ELSE conversations' = <<>>
             /\ conversationsLoading' = FALSE
             /\ memoryRequests' = Remove(memoryRequests, i)
             /\ lastResponse' = [by |-> "loadConversations", response |-> <<response>>]
    /\ UNCHANGED <<selectedConversationId, messages, messagesLoading, messagesTotal,
                   messagesOffset, memoryError>>
    /\ UNCHANGED notMemory

\* lines 74-78: getMemory threw
ConversationsFail ==
    /\ screen = "memory"
    /\ \E i \in 1..Len(memoryRequests) :
          /\ memoryRequests[i].kind = "loadConversations"
          /\ memoryRequests' = Remove(memoryRequests, i)
    /\ memoryError' = "API Error"
    /\ conversationsLoading' = FALSE
    /\ UNCHANGED <<conversations, selectedConversationId, messages, messagesLoading,
                   messagesTotal, messagesOffset>>
    /\ UNCHANGED <<notMemory, lastResponse>>

\* The component is not mounted
MemoryIdle ==
    /\ conversations = <<>> /\ conversationsLoading = FALSE
    /\ selectedConversationId = Null /\ messages = <<>>
    /\ messagesLoading = FALSE /\ messagesTotal = 0 /\ messagesOffset = 0
    /\ memoryError = Null /\ memoryRequests = <<>>

\* lines 15-33: the initial state, and the effect that loads the
\* conversations on mount
MemoryMounted ==
    /\ conversations = <<>> /\ conversationsLoading = TRUE
    /\ selectedConversationId = Null /\ messages = <<>>
    /\ messagesLoading = FALSE /\ messagesTotal = 0 /\ messagesOffset = 0
    /\ memoryError = Null
    /\ memoryRequests = <<GetMemory("loadConversations", 100, 0)>>

----------------------------------------------------------------------------
(* MemoryBrowser, components/memory/memory-browser.tsx *)

browserLimit == 50    \* line 31

notBrowser == <<streamVars, lastCall, treeVars, screen, backend, memoryVars, tracesVars>>

\* lines 41-43 and 98-100: one of the two branches is taken
HasEntries(response) ==
    \/ response.shape.mode = "messages" /\ response.shape.hasMessages
    \/ response.shape.entriesField # Absent

\* lines 41-46 and 98-103: the entries the branch taken reads
EntriesOf(response) ==
    IF response.shape.mode = "messages" /\ response.shape.hasMessages
    THEN response.messages
    ELSE IF response.shape.entriesField = "list" THEN response.entries ELSE <<>>

\* lines 36-39: loadMemory up to its await, with the pagination of the
\* render that made it
LoadMemory(pagination) ==
    /\ browserLoading' = TRUE
    /\ browserRequests' =
           Append(browserRequests, GetMemory("loadMemory", pagination.limit, pagination.offset))

\* lines 73-77: the dialog opens, the effect calls loadMemory
OpenBrowser ==
    /\ screen = "browser"
    /\ ~open
    /\ Len(browserRequests) < MaxInFlight
    /\ open' = TRUE
    /\ LoadMemory(browserPagination)
    /\ appended' = <<>>
    /\ UNCHANGED <<entries, browserPagination>>
    /\ UNCHANGED <<notBrowser, lastResponse>>

\* onOpenChange(false): the dialog closes, the component keeps its state
CloseBrowser ==
    /\ screen = "browser"
    /\ open
    /\ open' = FALSE
    /\ appended' = <<>>
    /\ UNCHANGED <<entries, browserLoading, browserPagination, browserRequests>>
    /\ UNCHANGED <<notBrowser, lastResponse>>

\* line 160: the refresh button
RefreshMemory ==
    /\ screen = "browser"
    /\ open /\ ~browserLoading
    /\ Len(browserRequests) < MaxInFlight
    /\ LoadMemory(browserPagination)
    /\ appended' = <<>>
    /\ UNCHANGED <<open, entries, browserPagination>>
    /\ UNCHANGED <<notBrowser, lastResponse>>

\* lines 213-215: the load-more button is rendered and enabled
LoadMoreEnabled ==
    /\ open
    /\ browserPagination.offset + browserPagination.limit < browserPagination.total
    /\ ~browserLoading

\* lines 91-95: loadMore up to its await
LoadMore ==
    /\ screen = "browser"
    /\ LoadMoreEnabled
    /\ Len(browserRequests) < MaxInFlight
    /\ LET newOffset == browserPagination.offset + browserPagination.limit
       IN browserRequests' =
              Append(browserRequests, GetMemory("loadMore", browserPagination.limit, newOffset))
    /\ browserLoading' = TRUE
    /\ appended' = <<>>
    /\ UNCHANGED <<open, entries, browserPagination>>
    /\ UNCHANGED <<notBrowser, lastResponse>>

\* lines 40-56: loadMemory after its await
LoadMemoryArrive ==
    /\ screen = "browser"
    /\ \E i \in 1..Len(browserRequests), shape \in backend.shapes, total \in backend.totals :
          LET response == MemoryResponse(shape, browserRequests[i], total)
          IN /\ browserRequests[i].kind = "loadMemory"
             /\ entries' = IF HasEntries(response) THEN EntriesOf(response) ELSE entries
             /\ browserPagination' = [browserPagination EXCEPT !.total = response.total]
             /\ browserLoading' = FALSE
             /\ browserRequests' = Remove(browserRequests, i)
             /\ lastResponse' = [by |-> "loadMemory", response |-> <<response>>]
    /\ UNCHANGED <<open, appended>>
    /\ UNCHANGED notBrowser

\* lines 52-56 and 110-114: getMemory threw
GetMemoryFail ==
    /\ screen = "browser"
    /\ \E i \in 1..Len(browserRequests) : browserRequests' = Remove(browserRequests, i)
    /\ browserLoading' = FALSE
    /\ UNCHANGED <<open, entries, browserPagination, appended>>
    /\ UNCHANGED <<notBrowser, lastResponse>>

\* line 105: prev => [...prev, ...newEntries]
LoadMoreEntries(prev, newEntries) == prev \o newEntries

\* lines 96-114: loadMore after its await; the new offset makes a new
\* loadMemory, which the effect of lines 73-77 calls when the dialog is open
LoadMoreArrive ==
    /\ screen = "browser"
    /\ \E i \in 1..Len(browserRequests), shape \in backend.shapes, total \in backend.totals :
          LET response == MemoryResponse(shape, browserRequests[i], total)
              newEntries == IF HasEntries(response) THEN EntriesOf(response) ELSE <<>>
              newOffset == browserRequests[i].offset
              after == [browserPagination EXCEPT !.offset = newOffset]
          IN /\ browserRequests[i].kind = "loadMore"
             /\ entries' = LoadMoreEntries(entries, newEntries)
             /\ appended' = <<LoadMoreEntries(entries, newEntries)>>
             /\ browserPagination' = after
             /\ IF open /\ newOffset # browserPagination.offset
                THEN /\ browserLoading' = TRUE
                     /\ browserRequests' =
                            Append(Remove(browserRequests, i),
                                   GetMemory("loadMemory", after.limit, after.offset))
                ELSE /\ browserLoading' = FALSE
                     /\ browserRequests' = Remove(browserRequests, i)
             /\ lastResponse' = [by |-> "loadMore", response |-> <<response>>]
    /\ UNCHANGED open
    /\ UNCHANGED notBrowser

\* lines 25-34: the initial state; the dialog is closed
BrowserClosed ==
    /\ open = FALSE /\ entries = <<>> /\ browserLoading = FALSE
    /\ browserPagination = Pagination(browserLimit, 0, 0)
    /\ browserRequests = <<>>
    /\ appended = <<>>

----------------------------------------------------------------------------
(* TracesScreen, components/screens/traces-screen.tsx, and the backend     *)
(* behind getTraces and deleteTrace (api.ts lines 183-199)                 *)

tracesLimit == 25    \* line 40

MaxTraces == 27      \* traces the backend holds at first
MaxDeletes == 1      \* deletions the user asks for

notTraces == <<streamVars, lastCall, treeVars, screen, backend, memoryVars, browserVars>>

\* Trace ids are 1, 2, ...; NoTrace is no id
NoTrace == 0

\* A call of the traces screen in flight: answer is <<>> until the backend
\* has handled the call, then <<its response>>. about is the id a deleteTrace
\* call deletes; on a getTraces call it is the id whose deletion issued the
\* call, NoTrace if none did.
TraceCall(kind, about, limit, offset) ==
    [kind |-> kind, about |-> about, limit |-> limit, offset |-> offset,
     answer |-> <<>>]

\* list traces, limit and offset: one page and the total at that time
TracesResponse(held, limit, offset) ==
    [traces |-> SubSeq(held, offset + 1,
                       IF offset + limit < Len(held) THEN offset + limit ELSE Len(held)),
     total |-> Len(held)]

\* delete trace: the backend no longer holds id
DeleteFrom(held, id) == SelectSeq(held, LAMBDA t : t # id)

\* The backend handles a call in flight
BackendAnswers ==
    /\ screen = "traces"
    /\ \E i \in 1..Len(tracesRequests) :
          LET call == tracesRequests[i]
          IN /\ call.answer = <<>>
             /\ IF call.kind = "deleteTrace"
                THEN /\ backendTraces' = DeleteFrom(backendTraces, call.about)
                     /\ tracesRequests' =
                            [tracesRequests EXCEPT ![i].answer =
                                IF \E k \in 1..Len(backendTraces) : backendTraces[k] = call.about
                                THEN <<"deleted">> ELSE <<"failed">>]
                ELSE /\ tracesRequests' =
                            [tracesRequests EXCEPT ![i].answer =
                                <<TracesResponse(backendTraces, call.limit, call.offset)>>]
                     /\ UNCHANGED backendTraces
    /\ UNCHANGED <<traces, tracesLoading, tracesError, tracesPagination, deleteClicks,
                   settled>>
    /\ UNCHANGED <<notTraces, lastResponse>>

\* lines 45-53: loadTraces up to its await, with the limit and the offset of
\* the render that made it
LoadTraces(about, limit, offset) ==
    /\ tracesLoading' = TRUE
    /\ tracesError' = Null
    /\ tracesRequests' = Append(tracesRequests, TraceCall("getTraces", about, limit, offset))

\* lines 172-179: while loading with no trace to show, the screen is a
\* spinner and has no button
TracesRendered == ~(tracesLoading /\ traces = <<>>)

\* line 191: the refresh button, onClick={loadTraces} disabled={loading}
RefreshTraces ==
    /\ screen = "traces"
    /\ TracesRendered /\ ~tracesLoading
    /\ Len(tracesRequests) < MaxInFlight
    /\ LoadTraces(NoTrace, tracesPagination.limit, tracesPagination.offset)
    /\ settled' = <<>>
    /\ UNCHANGED <<traces, tracesPagination, backendTraces, deleteClicks>>
    /\ UNCHANGED <<notTraces, lastResponse>>

\* lines 154-161: handleNextPage
HandleNextPage(pagination) ==
    IF pagination.offset + pagination.limit < pagination.total
    THEN [pagination EXCEPT !.offset = pagination.offset + pagination.limit]
    ELSE pagination

\* lines 163-170: handlePrevPage
HandlePrevPage(pagination) ==
    IF pagination.offset > 0
    THEN [pagination EXCEPT !.offset = Max0(pagination.offset - pagination.limit)]
    ELSE pagination

\* A page operation left the pagination after: a new offset makes a new
\* loadTraces, which the effect of lines 139-141 calls
TracesMoveTo(after) ==
    /\ tracesPagination' = after
    /\ IF after.offset # tracesPagination.offset
       THEN /\ Len(tracesRequests) < MaxInFlight
            /\ LoadTraces(NoTrace, after.limit, after.offset)
       ELSE UNCHANGED <<tracesLoading, tracesError, tracesRequests>>
    /\ settled' = <<>>
    /\ UNCHANGED <<traces, backendTraces, deleteClicks>>
    /\ UNCHANGED <<notTraces, lastResponse>>

\* lines 403-410: a click on the next button, enabled unless
\* pagination.offset + pagination.limit >= pagination.total
TracesNextPage ==
    /\ screen = "traces"
    /\ TracesRendered
    /\ ~(tracesPagination.offset + tracesPagination.limit >= tracesPagination.total)
    /\ TracesMoveTo(HandleNextPage(tracesPagination))

\* lines 395-402: a click on the previous button, enabled unless
\* pagination.offset === 0
TracesPrevPage ==
    /\ screen = "traces"
    /\ TracesRendered
    /\ ~(tracesPagination.offset = 0)
    /\ TracesMoveTo(HandlePrevPage(tracesPagination))

\* The traces of the list the user may ask to delete: the first and the last
DeletePicks == IF traces = <<>> THEN {} ELSE {traces[1], traces[Len(traces)]}

\* lines 69-71 and 374: deleteTrace up to its first await; the call keeps the
\* loadTraces of the render it was made in, that is its limit and offset
DeleteTrace ==
    /\ screen = "traces"
    /\ TracesRendered
    /\ deleteClicks < MaxDeletes
    /\ Len(tracesRequests) < MaxInFlight
    /\ \E traceId \in DeletePicks :
          tracesRequests' =
              Append(tracesRequests,
                     TraceCall("deleteTrace", traceId, tracesPagination.limit,
                               tracesPagination.offset))
    /\ deleteClicks' = deleteClicks + 1
    /\ settled' = <<>>
    /\ UNCHANGED <<traces, tracesLoading, tracesError, tracesPagination, backendTraces>>
    /\ UNCHANGED <<notTraces, lastResponse>>

\* TracesArrive with a request generation: only the response of the call
\* issued last is applied, any other is discarded
TracesArriveLatestOnly ==
    /\ screen = "traces"
    /\ \E i \in 1..Len(tracesRequests) :
          LET call == tracesRequests[i]
          IN /\ call.kind = "getTraces" /\ call.answer # <<>>
             /\ IF i = Len(tracesRequests)
                THEN /\ traces' = call.answer[1].traces
                     /\ tracesPagination' =
                            [tracesPagination EXCEPT !.total = call.answer[1].total]
                ELSE UNCHANGED <<traces, tracesPagination>>
             /\ tracesLoading' = FALSE
             /\ tracesRequests' = Remove(tracesRequests, i)
    /\ UNCHANGED <<tracesError, backendTraces, deleteClicks, settled>>
    /\ UNCHANGED <<notTraces, lastResponse>>

\* lines 55-60 and 64-66: loadTraces after its await
TracesArrive ==
    /\ screen = "traces"
    /\ \E i \in 1..Len(tracesRequests) :
          LET call == tracesRequests[i]
          IN /\ call.kind = "getTraces" /\ call.answer # <<>>
             /\ traces' = call.answer[1].traces
             /\ tracesPagination' = [tracesPagination EXCEPT !.total = call.answer[1].total]
             /\ tracesLoading' = FALSE
             /\ tracesRequests' = Remove(tracesRequests, i)
             /\ settled' = IF call.about # NoTrace
                           THEN <<[id |-> call.about, total |-> call.answer[1].total]>>
                           ELSE settled
    /\ UNCHANGED <<tracesError, backendTraces, deleteClicks>>
    /\ UNCHANGED <<notTraces, lastResponse>>

\* TracesFail emptying the displayed list
TracesFailClearsList ==
    /\ screen = "traces"
    /\ \E i \in 1..Len(tracesRequests) :
          /\ tracesRequests[i].kind = "getTraces"
          /\ tracesRequests' = Remove(tracesRequests, i)
    /\ traces' = <<>>
    /\ tracesError' = "API Error"
    /\ tracesLoading' = FALSE
    /\ UNCHANGED <<tracesPagination, backendTraces, deleteClicks, settled>>
    /\ UNCHANGED <<notTraces, lastResponse>>

\* lines 61-66: getTraces or getTraceStats threw
TracesFail ==
    /\ screen = "traces"
    /\ \E i \in 1..Len(tracesRequests) :
          /\ tracesRequests[i].kind = "getTraces"
          /\ tracesRequests' = Remove(tracesRequests, i)
    /\ tracesError' = "API Error"
    /\ tracesLoading' = FALSE
    /\ UNCHANGED <<traces, tracesPagination, backendTraces, deleteClicks, settled>>
    /\ UNCHANGED <<notTraces, lastResponse>>

\* lines 71-72: agentAPI.deleteTrace returned, and deleteTrace calls the
\* loadTraces it was made with
DeleteTraceReturns(call, after) ==
    /\ tracesLoading' = TRUE
    /\ tracesError' = Null
    /\ tracesRequests' = Append(after, TraceCall("getTraces", call.about, call.limit, call.offset))
    /\ UNCHANGED traces

\* the delete call of lines 71-72 came back
DeleteArrive ==
    /\ screen = "traces"
    /\ \E i \in 1..Len(tracesRequests) :
          /\ tracesRequests[i].kind = "deleteTrace"
          /\ tracesRequests[i].answer = <<"deleted">>
          /\ DeleteTraceReturns(tracesRequests[i], Remove(tracesRequests, i))
    /\ UNCHANGED <<tracesPagination, backendTraces, deleteClicks, settled>>
    /\ UNCHANGED <<notTraces, lastResponse>>

\* lines 73-76: agentAPI.deleteTrace threw
DeleteFail ==
    /\ screen = "traces"
    /\ \E i \in 1..Len(tracesRequests) :
          /\ tracesRequests[i].kind = "deleteTrace"
          /\ tracesRequests' = Remove(tracesRequests, i)
    /\ tracesError' = "API Error"
    /\ UNCHANGED <<traces, tracesLoading, tracesPagination, backendTraces, deleteClicks,
                   settled>>
    /\ UNCHANGED <<notTraces, lastResponse>>

\* UITrace.status as the backend reports it: the traces of RunningTraces are
\* running for the whole run, every other trace is completed
RunningTraces == {2}

StatusOf(id) == IF id \in RunningTraces THEN "running" ELSE "completed"

\* SomeRunning that is true of every list that is not empty
SomeListed(list) == list # <<>>

\* line 146: traces.some(trace => trace.status === 'running')
SomeRunning(list) == \E k \in 1..Len(list) : StatusOf(list[k]) = "running"

\* lines 144-152: a tick of the interval set up by the render that made the
\* current traces and loadTraces
AutoRefreshTick ==
    /\ screen = "traces"
    /\ IF SomeRunning(traces)
       THEN /\ Len(tracesRequests) < MaxInFlight
            /\ LoadTraces(NoTrace, tracesPagination.limit, tracesPagination.offset)
            /\ UNCHANGED <<traces, tracesPagination, backendTraces, deleteClicks, settled>>
       ELSE UNCHANGED tracesVars
    /\ UNCHANGED <<notTraces, lastResponse>>

\* The component is not mounted
TracesIdle ==
    /\ traces = <<>> /\ tracesLoading = FALSE /\ tracesError = Null
    /\ tracesPagination = Pagination(tracesLimit, 0, 0)
    /\ tracesRequests = <<>> /\ backendTraces = <<>>
    /\ deleteClicks = 0 /\ settled = <<>>

\* What the backend holds when the screen is mounted
InitialTraces == {[i \in 1..n |-> i] : n \in {2, MaxTraces}}

\* lines 31-43 and 139-141: the initial state, and the effect that calls
\* loadTraces on mount
TracesMounted ==
    /\ traces = <<>> /\ tracesLoading = TRUE /\ tracesError = Null
    /\ tracesPagination = Pagination(tracesLimit, 0, 0)
    /\ tracesRequests = <<TraceCall("getTraces", NoTrace, tracesLimit, 0)>>
    /\ backendTraces \in InitialTraces
    /\ deleteClicks = 0 /\ settled = <<>>

----------------------------------------------------------------------------
(* Specifications *)

\* What the backend of the list endpoints may answer
Totals == {100, 120}

UiIdle ==
    /\ screen = "none"
    /\ backend = [shapes |-> {}, totals |-> {}]
    /\ lastResponse = NoResponse
    /\ MemoryIdle /\ BrowserClosed /\ TracesIdle

TreeIdle ==
    /\ spans = <<>> /\ spanMap = <<>> /\ rootSpans = <<>> /\ tpc = "idle" /\ ti = 0
    /\ visited = <<>>

InitStreams(S) ==
    /\ stream \in S
    /\ pc = "start"
    /\ StreamIdle
    /\ lastCall = NoCall
    /\ TreeIdle
    /\ UiIdle

InitStream(V) == InitStreams(Streams(V))

Init == InitStream(CoreVocab)

InitOrder == InitStream(OrderVocab)

InitFalsy == InitStreams(ShortStreams(FalsyVocab))

InitFields == InitStream(FieldVocab)

InitPayload == InitStream(PayloadVocab)

Next ==
    \/ Start
    \/ ReadChunk
    \/ Resume
    \/ ReadDone
    \/ ReadError
    \/ ConsumerReturn
    \/ ConsumerThrow

Spec == Init /\ [][Next]_vars

SpecOrder == InitOrder /\ [][Next]_vars

SpecFalsy == InitFalsy /\ [][Next]_vars

SpecFields == InitFields /\ [][Next]_vars

SpecPayload == InitPayload /\ [][Next]_vars

\* The request/response calls beside one stream
ApiStreams == {Wire(<<D1, BLANK, DONE>>), Wire(<<D1, BLANK, D1>>)}

InitApi ==
    /\ stream \in ApiStreams
    /\ pc = "start"
    /\ StreamIdle
    /\ lastCall = NoCall
    /\ TreeIdle
    /\ UiIdle

NextApi ==
    \/ Next
    \/ ApiGet
    \/ ApiPost
    \/ ApiDeleteTrace
    \/ ApiHealth

SpecApi == InitApi /\ [][NextApi]_vars

\* buildSpanHierarchy on the spans of one trace
InitTree ==
    /\ stream = <<>>
    /\ pc = "idle"
    /\ StreamIdle
    /\ lastCall = NoCall
    /\ spans \in SpanLists
    /\ spanMap = <<>> /\ rootSpans = <<>>
    /\ tpc = "init" /\ ti = 1
    /\ visited = <<>>
    /\ UiIdle

NextTree ==
    \/ InitSpan
    \/ BeginBuild
    \/ LinkSpan
    \/ ReturnRoots
    \/ RenderTimeline

SpecTree == InitTree /\ [][NextTree]_vars

\* One of the three components is mounted, beside a backend that answers
\* in the two shapes of the current MemoryResponse
NothingElse ==
    /\ stream = <<>> /\ pc = "idle" /\ StreamIdle
    /\ lastCall = NoCall
    /\ TreeIdle

InitScreens ==
    /\ NothingElse
    /\ screen \in {"memory", "browser", "traces"}
    /\ backend = [shapes |-> {MessagesShape, ConversationsShape}, totals |-> Totals]
    /\ lastResponse = NoResponse
    /\ IF screen = "memory" THEN MemoryMounted ELSE MemoryIdle
    /\ BrowserClosed
    /\ IF screen = "traces" THEN TracesMounted ELSE TracesIdle

NextMemory ==
    \/ RefreshConversations
    \/ HandleSelectConversation
    \/ MemoryNextPage
    \/ MemoryPrevPage
    \/ MessagesArrive
    \/ MessagesFail
    \/ ConversationsArrive
    \/ ConversationsFail

NextBrowser ==
    \/ OpenBrowser
    \/ CloseBrowser
    \/ RefreshMemory
    \/ LoadMore
    \/ LoadMemoryArrive
    \/ LoadMoreArrive
    \/ GetMemoryFail

NextTraces ==
    \/ BackendAnswers
    \/ RefreshTraces
    \/ TracesNextPage
    \/ TracesPrevPage
    \/ DeleteTrace
    \/ TracesArrive
    \/ TracesFail
    \/ DeleteArrive
    \/ DeleteFail
    \/ AutoRefreshTick

NextScreens ==
    \/ NextMemory
    \/ NextBrowser
    \/ NextTraces

SpecScreens == InitScreens /\ [][NextScreens]_vars

\* The shapes whose mode has its list, with or without an entries field
ModalShapes ==
    {shape \in Shapes :
        /\ shape.hasMessages = (shape.mode = "messages")
        /\ shape.hasConversations = (shape.mode = "conversations")}

\* The memory screen or the memory browser beside a backend that answers in
\* any of these shapes
InitShapes ==
    /\ NothingElse
    /\ screen \in {"memory", "browser"}
    /\ backend = [shapes |-> ModalShapes, totals |-> {100}]
    /\ lastResponse = NoResponse
    /\ IF screen = "memory" THEN MemoryMounted ELSE MemoryIdle
    /\ BrowserClosed
    /\ TracesIdle

NextShapes ==
    \/ NextMemory
    \/ NextBrowser

SpecShapes == InitShapes /\ [][NextShapes]_vars

----------------------------------------------------------------------------
(* Vocabulary of the claims about streamAgent *)

\* The lines of the stream, in the order sent (every line ends with a newline)
SentLines == Front(Split(stream))

IsDataLine(l) == StartsWith(l, DataPrefix) /\ Slice(l, 6) # DoneText
ParsedOK(l) == IsDataLine(l) /\ JSONParse(Slice(l, 6)).ok
Malformed(l) == IsDataLine(l) /\ ~JSONParse(Slice(l, 6)).ok
IsSentinel(l) == StartsWith(l, DataPrefix) /\ Slice(l, 6) = DoneText

Min(S) == CHOOSE x \in S : \A y \in S : x <= y
Max(S) == CHOOSE x \in S : \A y \in S : x >= y

\* The number of the first sentinel line of L, or one past its last line
FirstSentinel(L) ==
    LET S == {i \in 1..Len(L) : IsSentinel(L[i])}
    IN IF S = {} THEN Len(L) + 1 ELSE Min(S)

HasSentinel(L) == FirstSentinel(L) <= Len(L)

Payloads == [k \in 1..Len(yielded) |-> yielded[k].data]
ClosedAt == {yielded[k].closedAt : k \in 1..Len(yielded)}

\* The generator ran to its own end: the consumer did not leave early and
\* the transport did not fail
RanToEnd == pc = "finished" /\ exit \in {"sentinel", "eof"}

\* The record a blank line i closes starts after the previous blank line
RecordStart(L, i) ==
    LET B == {j \in 1..(i - 1) : L[j] = BLANK}
    IN IF B = {} THEN 1 ELSE Max(B) + 1

\* The blank lines before the sentinel that close a record holding at least
\* one data line that parses
ClosingBlanks(L) ==
    {i \in 1..(FirstSentinel(L) - 1) :
        /\ L[i] = BLANK
        /\ \E j \in RecordStart(L, i)..(i - 1) : ParsedOK(L[j])}

\* A well-formed stream: records closed by a blank line, then the sentinel,
\* with at most its own closing blank line after it
WellFormed(L) ==
    LET f == FirstSentinel(L) IN
    /\ f <= Len(L)
    /\ f = 1 \/ L[f - 1] = BLANK
    /\ \/ f = Len(L)
       \/ f = Len(L) - 1 /\ L[Len(L)] = BLANK

\* What streamAgent yields when the whole text arrives in one chunk: the
\* for-loop of api.ts:144-166 over all the lines, from an empty event
RECURSIVE DecodeLines(_, _)
DecodeLines(ev, ls) ==
    IF ls = <<>> THEN <<>>
    ELSE LET r == LineStep(ev, Head(ls)) IN
         IF r.out = "return" THEN <<>>
         ELSE IF r.out = "yield"
         THEN <<r.ev.data>> \o DecodeLines(AfterYield(r.ev), Tail(ls))
         ELSE DecodeLines(r.ev, Tail(ls))

SingleChunk(text) == DecodeLines(EmptyEvent, Front(Split(text)))

----------------------------------------------------------------------------
(* Claims about streamAgent *)

\* C1: for a well-formed stream, whatever the chunk boundaries, the payloads
\* yielded are those yielded when the whole text arrives in one chunk.
C1_ChunkingIndependent ==
    (RanToEnd /\ WellFormed(SentLines)) => Payloads = SingleChunk(stream)

\* C2: once the line `data: [DONE]` has been processed the generator has
\* completed without error, nothing was yielded at or after that line, no
\* later line was processed, and nothing is read or yielded afterwards.
C2_SentinelStops ==
    /\ [](lineNo > 0 =>
            LET f == FirstSentinel(SentLines) IN
            lineNo >= f =>
                /\ pc = "finished" /\ exit = "sentinel" /\ error = None
                /\ lineNo = f
                /\ \A i \in ClosedAt : i < f)
    /\ [][exit = "sentinel" => UNCHANGED <<rest, buffer, lines, yielded, lineNo, pc>>]_vars

\* C2 witness: the sentinel ended decoding while text was still undelivered
\* and a parsed payload was held for a record no blank line had closed.
C2_Witness ==
    /\ exit = "sentinel" /\ rest # <<>> /\ currentEvent.data # None

\* C3: a data line that is not valid JSON raises no error, and every valid
\* record that follows it in the stream is still yielded.
C3_MalformedSkipped ==
    RanToEnd =>
        LET L == SentLines IN
        /\ error = None
        /\ \A m \in 1..(FirstSentinel(L) - 1) : Malformed(L[m]) =>
              \A i \in ClosingBlanks(L) : RecordStart(L, i) > m => i \in ClosedAt

\* C4: a record is yielded exactly when a blank line closes it and at least
\* one of its data lines was parsed, whatever JSON value was parsed.
C4_YieldsExactlyClosedRecords ==
    RanToEnd =>
        LET C == ClosingBlanks(SentLines) IN
        ClosedAt = C /\ Len(yielded) = Cardinality(C)

\* C5: once the generator has finished after obtaining the reader, by any
\* exit path, the read handle is not locked; while it runs it holds the lock.
C5_LockReleased ==
    /\ (pc = "finished" /\ readerAcquired) => ~locked
    /\ pc \in {"read", "yield"} => (readerAcquired /\ locked)

\* C5 witness: the generator finished because the consumer threw at a yield.
C5_Witness == pc = "finished" /\ readerAcquired /\ exit = "throw" /\ ~locked

\* C6: when the transport reports the end of the stream and no sentinel was
\* seen, the generator completes without error and that step yields nothing.
C6_EofEndsNormally ==
    /\ [](exit = "eof" =>
            /\ pc = "finished" /\ error = None /\ rest = <<>>
            /\ lineNo < FirstSentinel(SentLines))
    /\ [][exit' = "eof" => yielded' = yielded]_vars

\* C6 witness: the transport ended after a parsed data line that no blank
\* line closed, and after a record had been yielded.
C6_Witness ==
    /\ exit = "eof" /\ yielded # <<>>
    /\ LET L == SentLines IN L # <<>> /\ ParsedOK(Last(L))

\* C7: the yields follow the order of the blank lines that closed them: each
\* yield is for a later blank line than the one before, and carries the
\* payload of the last data line parsed since the previous yield.
C7_OrderPreserved ==
    yielded # <<>> =>
    LET L == SentLines IN
    \A k \in 1..Len(yielded) :
        LET i == yielded[k].closedAt
            p == IF k = 1 THEN 0 ELSE yielded[k - 1].closedAt
            J == {j \in (p + 1)..(i - 1) : ParsedOK(L[j])}
        IN /\ p < i /\ i <= Len(L)
           /\ L[i] = BLANK
           /\ J # {}
           /\ yielded[k].data = JSONParse(Slice(L[Max(J)], 6)).value

\* C7 witness: two records with different payloads were yielded.
C7_Witness == Len(yielded) >= 2 /\ yielded[1].data # yielded[2].data

----------------------------------------------------------------------------
(* Claims about the request/response calls *)

NonOk(st) == st < 200 \/ st > 299

\* C8: a non-2xx response makes the call throw an error that carries the
\* status and deliver no payload; streamAgent then yields nothing and never
\* obtains the reader.
C8_NonOkThrows ==
    /\ (lastCall.op # "none" /\ NonOk(lastCall.httpStatus)) =>
          /\ lastCall.outcome = "thrown"
          /\ lastCall.payload = ""
          /\ lastCall.thrown # None /\ lastCall.thrown.v = lastCall.httpStatus
    /\ (status # 0 /\ NonOk(status)) =>
          /\ pc = "finished" /\ exit = "http"
          /\ error # None /\ error.v = status
          /\ yielded = <<>> /\ ~readerAcquired /\ ~locked

\* C8 witness: deleteTrace threw on a 300 response and the stream request
\* failed on a 404 response.
C8_Witness ==
    /\ lastCall.op = "deleteTrace" /\ lastCall.httpStatus = 300 /\ lastCall.outcome = "thrown"
    /\ status = 404 /\ exit = "http"

----------------------------------------------------------------------------
(* Claims about buildSpanHierarchy *)

InputIds == {spans[i].id : i \in 1..Len(spans)}

Range(q) == {q[i] : i \in 1..Len(q)}

\* How many times x occurs in the sequence q
Occurrences(q, x) == Cardinality({i \in 1..Len(q) : q[i] = x})

\* The nodes reachable from the root list through children lists
RECURSIVE ReachFrom(_, _)
ReachFrom(seen, n) ==
    IF n = 0 THEN seen
    ELSE ReachFrom(seen \cup UNION {Range(spanMap[x].children) : x \in seen}, n - 1)

Reachable == ReachFrom(Range(rootSpans), Len(spans))

\* The span with id x is, through parent_id references, its own ancestor
RECURSIVE AncestorsOf(_, _)
AncestorsOf(S, n) ==
    IF n = 0 THEN S
    ELSE AncestorsOf(S \cup {spans[i].parent_id : i \in {j \in 1..Len(spans) : spans[j].id \in S}}, n - 1)

OnCycle(x) ==
    LET i == CHOOSE j \in 1..Len(spans) : spans[j].id = x
    IN x \in AncestorsOf({spans[i].parent_id}, Len(spans))

Acyclic == \A x \in InputIds : ~OnCycle(x)

\* C9: every node of the root list has parent_id null or empty, or a
\* parent_id that is the id of no span of the input.
C9_RootsHaveNoParent ==
    \A k \in 1..Len(rootSpans) :
        LET p == spanMap[rootSpans[k]].span.parent_id
        IN p = Null \/ p = "" \/ p \notin InputIds

\* C9 witness: the builder returned a root list holding a span with null
\* parent, one with an empty parent_id and one whose parent is missing.
C9_Witness ==
    /\ tpc = "done"
    /\ \E a, b, c \in Range(rootSpans) :
          /\ spanMap[a].span.parent_id = Null
          /\ spanMap[b].span.parent_id = ""
          /\ spanMap[c].span.parent_id = Missing

\* Every span is held exactly once: in the root list or in one children list
HeldOnce ==
    \A x \in InputIds :
        Occurrences(rootSpans, x)
        + Cardinality({p \in DOMAIN spanMap : x \in Range(spanMap[p].children)}) = 1
        /\ \A p \in DOMAIN spanMap : Occurrences(spanMap[p].children, x) <= 1

NoLossNoDuplication ==
    /\ DOMAIN spanMap = InputIds
    /\ HeldOnce
    /\ Reachable = InputIds

\* C10 as stated: for any span list, every non-root is in exactly one
\* children list and the nodes reachable from the roots are the input set.
C10_ForestIsInput == tpc = "done" => NoLossNoDuplication

\* C10 amended: the same, for span lists whose parent_id references form no
\* cycle.
C10_ForestIsInputAcyclic == (tpc = "done" /\ Acyclic) => NoLossNoDuplication

\* C10 witness: a three-level chain given children first was built.
C10_Witness ==
    /\ tpc = "done" /\ Acyclic /\ Len(spans) = 3 /\ Len(rootSpans) = 1
    /\ \E x \in InputIds : x \notin Range(rootSpans) /\ spanMap[x].children # <<>>
    /\ spans[1].parent_id = spans[2].id

----------------------------------------------------------------------------
(* Claims about the missing-parent policy, sibling order and rendering *)

\* The spans the second forEach has handled so far
Linked == IF tpc = "init" THEN {} ELSE IF tpc = "build" THEN 1..(ti - 1) ELSE 1..Len(spans)

\* Position of the span with id x in the input list
Pos(x) == CHOOSE i \in 1..Len(spans) : spans[i].id = x

Orphan(span) == span.parent_id # Null /\ span.parent_id \notin InputIds

\* C11: a span whose parent_id is non-null but is the id of no span of the
\* input is, once the builder has handled it, in the root list exactly once
\* and in no children list, and the builder runs to its return.
C11_OrphanIsRoot ==
    /\ \A i \in Linked :
          Orphan(spans[i]) =>
              /\ Occurrences(rootSpans, spans[i].id) = 1
              /\ \A p \in DOMAIN spanMap : spans[i].id \notin Range(spanMap[p].children)
    /\ tpc \in {"init", "build", "done", "rendered"}
    /\ (tpc = "build" /\ ti <= Len(spans)) => ENABLED LinkSpan

\* C11 witness: the builder returned for an input that has a span with a
\* missing parent between two spans that have their parent.
C11_Witness ==
    /\ tpc = "done" /\ Len(spans) = 3
    /\ spans[2].parent_id = Missing
    /\ spans[3].parent_id = spans[1].id
    /\ rootSpans = <<spans[1].id, spans[2].id>>

\* q lists its nodes in the order of the input
InInputOrder(q) ==
    \A k, l \in 1..Len(q) : k < l <=> Pos(q[k]) < Pos(q[l])

\* C12: two spans of the same children list, or both of the root list, are
\* there in the order they have in the input list.
C12_SiblingsInInputOrder ==
    /\ InInputOrder(rootSpans)
    /\ \A p \in DOMAIN spanMap : InInputOrder(spanMap[p].children)

\* C12 witness: a parent given between its two children holds both.
C12_Witness ==
    /\ tpc = "done"
    /\ \E p \in DOMAIN spanMap :
          /\ Len(spanMap[p].children) = 2
          /\ Pos(p) = 2

\* Where renderSpanTree rendered the node x
VisitPos(x) == CHOOSE k \in 1..Len(visited) : visited[k].id = x

\* The node x and the nodes below it
Subtree(x) == ReachFrom({x}, Len(spans))

\* The nodes of q are visited in the order of q, which is the input order
VisitedInOrder(q) ==
    \A k, l \in 1..Len(q) :
        /\ k < l <=> VisitPos(q[k]) < VisitPos(q[l])
        /\ Pos(q[k]) < Pos(q[l]) <=> VisitPos(q[k]) < VisitPos(q[l])

\* C13: renderSpanTree visits each node of the forest once, the roots in
\* input order, each node before the nodes below it, the children of a node
\* in input order, and all the nodes below a node before its next sibling.
C13_PreOrder ==
    tpc = "rendered" =>
        /\ {visited[k].id : k \in 1..Len(visited)} = Reachable
        /\ Len(visited) = Cardinality(Reachable)
        /\ VisitedInOrder(rootSpans)
        /\ \A r \in Range(rootSpans) : visited[VisitPos(r)].level = 0
        /\ \A x \in Reachable :
              LET k == VisitPos(x)
                  n == Cardinality(Subtree(x))
              IN /\ k + n - 1 <= Len(visited)
                 /\ {visited[j].id : j \in k..(k + n - 1)} = Subtree(x)
                 /\ VisitedInOrder(spanMap[x].children)
                 /\ \A c \in Range(spanMap[x].children) :
                       visited[VisitPos(c)].level = visited[k].level + 1

\* C13 witness: the first of two roots has a child that the input gives
\* after the second root, and the child was rendered before that root.
C13_Witness ==
    /\ tpc = "rendered" /\ Len(rootSpans) = 2
    /\ spanMap[rootSpans[1]].children # <<>>
    /\ Pos(spanMap[rootSpans[1]].children[1]) > Pos(rootSpans[2])
    /\ visited[2].id = spanMap[rootSpans[1]].children[1]
----------------------------------------------------------------------------
(* Claims about pagination *)

\* C14: in every state of the message pagination of the memory screen,
\* 1 <= currentPage <= max(totalPages, 1).
C14_CurrentPageInRange ==
    screen = "memory" =>
        /\ 1 <= CurrentPage(messagesOffset, messagesLimit)
        /\ CurrentPage(messagesOffset, messagesLimit)
               <= Max({TotalPages(messagesTotal, messagesLimit), 1})

\* C15: a next-page operation with offset + limit >= total, and a
\* previous-page operation with offset = 0, leave the offset as it is, on
\* the memory screen and on the traces screen.
C15_BoundaryNoOp ==
    [][/\ (MemoryNextPage /\ messagesOffset + messagesLimit >= messagesTotal)
            => messagesOffset' = messagesOffset
       /\ (MemoryPrevPage /\ messagesOffset = 0)
            => messagesOffset' = messagesOffset
       /\ (TracesNextPage
             /\ tracesPagination.offset + tracesPagination.limit >= tracesPagination.total)
            => tracesPagination'.offset = tracesPagination.offset
       /\ (TracesPrevPage /\ tracesPagination.offset = 0)
            => tracesPagination'.offset = tracesPagination.offset]_vars

ValidPagination(limit, offset) == limit > 0 /\ offset >= 0 /\ offset % limit = 0

\* C16: every pagination state has limit > 0, offset >= 0 and an offset
\* that is a multiple of the limit; so has every call in flight.
C16_OffsetMultipleOfLimit ==
    /\ ValidPagination(messagesLimit, messagesOffset)
    /\ ValidPagination(browserPagination.limit, browserPagination.offset)
    /\ ValidPagination(tracesPagination.limit, tracesPagination.offset)
    /\ \A q \in Range(memoryRequests) \cup Range(browserRequests) \cup Range(tracesRequests) :
          ValidPagination(q.limit, q.offset)

\* C16 witness: the message pagination went forward two pages and back one.
C16_Witness ==
    /\ screen = "memory" /\ messagesOffset = messagesLimit
    /\ \E i \in 1..Len(memoryRequests) :
          /\ memoryRequests[i].kind = "loadMessages"
          /\ memoryRequests[i].offset = 2 * messagesLimit

\* C17: once a load-more of the memory browser has delivered its page and
\* every fetch it set off has settled, the entries are the items loaded
\* before it followed by the items of its page.
C17_LoadMoreAppends ==
    (screen = "browser" /\ appended # <<>> /\ browserRequests = <<>>)
        => entries = appended[1]

----------------------------------------------------------------------------
(* Claims about the two shapes of a memory response *)

\* The list of entries a response gives: the messages of mode 'messages',
\* else the entries of the older shape, else none
WantedEntries(r) ==
    IF r.shape.mode = "messages" /\ r.shape.hasMessages THEN r.messages
    ELSE IF r.shape.entriesField = "list" THEN r.entries
    ELSE <<>>

\* The list of conversations a response gives
WantedConversations(r) ==
    IF r.shape.mode = "conversations" /\ r.shape.hasConversations THEN r.conversations
    ELSE <<>>

\* C18: the list a fetch leaves is the one its response gives: the messages
\* of mode 'messages', the conversations of mode 'conversations', the
\* entries of the older shape, and the empty list when the response has
\* none of these; loadMemory and loadMessages hold entries, loadConversations
\* holds conversations.
C18_ListIsWhatResponseGives ==
    [][/\ LoadMemoryArrive => entries' = WantedEntries(lastResponse'.response[1])
       /\ MessagesArrive => messages' = WantedEntries(lastResponse'.response[1])
       /\ ConversationsArrive
            => conversations' = WantedConversations(lastResponse'.response[1])]_vars

----------------------------------------------------------------------------
(* Claims about the deletion of a trace *)

\* C19: from the state in which the re-fetch of a deletion was applied until
\* the user acts again, the list of the traces screen does not hold the
\* deleted id and pagination.total is the total that re-fetch reported.
C19_DeletionStays ==
    (screen = "traces" /\ settled # <<>>) =>
        /\ \A k \in 1..Len(traces) : traces[k] # settled[1].id
        /\ tracesPagination.total = settled[1].total

\* The call the step issued is a getTraces of the page limit, offset
IssuesGetTraces(limit, offset) ==
    /\ Len(tracesRequests') > 0
    /\ LET call == tracesRequests'[Len(tracesRequests')]
       IN /\ call.kind = "getTraces" /\ call.answer = <<>>
          /\ call.limit = limit /\ call.offset = offset

\* C20: the step in which a delete call returns issues a getTraces of the
\* current page (the limit and offset of the pagination), and the list of
\* traces changes only in a step that applies a getTraces response.
C20_DeletionRefetches ==
    [][/\ DeleteArrive => IssuesGetTraces(tracesPagination.limit, tracesPagination.offset)
       /\ traces' # traces => TracesArrive]_vars

----------------------------------------------------------------------------
(* Further claims about streamAgent *)

\* The text the reader has delivered so far
Received == SubSeq(stream, 1, Len(stream) - Len(rest))

\* C23: once the reader is held, the buffer is the text after the last
\* newline of everything received, and the lines handed to the for-loop are
\* the lines of the received text, none lost and none cut short.
C23_PartialLineKept ==
    readerAcquired =>
        LET parts == Split(Received) IN
        /\ buffer = Last(parts)
        /\ lineNo + Len(lines) = Len(parts) - 1
        /\ lines = SubSeq(parts, lineNo + 1, Len(parts) - 1)

\* C23 witness: a read ended inside a line after a record had been yielded,
\* with text still to come.
C23_Witness ==
    /\ pc = "read" /\ buffer # <<>> /\ rest # <<>> /\ yielded # <<>>

\* A step of the generator that runs the for-loop: a chunk was read, or the
\* consumer asked for the next record after a yield
LoopStep ==
    \/ pc = "read" /\ rest' # rest
    \/ pc = "yield" /\ exit' \notin {"return", "throw"}

\* The event and the lines that run of the for-loop starts from
LoopEvent == IF pc = "read" THEN EmptyEvent ELSE AfterYield(currentEvent)

LoopLines ==
    IF pc = "read"
    THEN Front(Split(AppendChunk(buffer, SubSeq(rest, 1, Len(rest) - Len(rest')))))
    ELSE lines

\* The event the for-loop of api.ts:144-166 holds before each of the lines
\* ls, started from event ev (up to its next suspension)
EventsBefore(ev, ls) ==
    LET before[i \in 1..Len(ls)] ==
            IF i = 1 THEN ev ELSE LineStep(before[i - 1], ls[i - 1]).ev
    IN before

\* The run of the for-loop over ls is the one the generator performed
Performed(ev, ls) ==
    \A run \in {RunLines(ev, ls, 0)} :
        /\ lineNo' = lineNo + run.lineNo
        /\ pc' = "yield" <=> run.out = "yield"
        /\ pc' = "yield" => Last(yielded') = [data |-> run.ev.data, closedAt |-> lineNo']

\* The falsy JSON values: 0, false, null and the empty string
FalsyValues ==
    {JSONParse(t).value : t \in {<<"0">>, FalseText, NullText, EmptyStringText}}

Falsy(x) == x \in FalsyValues

\* C28: when the for-loop reaches a blank line while the record holds a parsed
\* payload that is falsy, it yields nothing at that line and leaves the
\* record as it is.
C28_FalsyNotYielded ==
    [][LoopStep =>
        \A ls \in {LoopLines} : \A before \in {EventsBefore(LoopEvent, ls)} :
        /\ Performed(LoopEvent, ls)
        /\ \A k \in 1..(lineNo' - lineNo) :
              (ls[k] = BLANK /\ Falsy(before[k].data)) =>
                  /\ LineStep(before[k], ls[k]) = [ev |-> before[k], out |-> "skip"]
                  /\ (lineNo + k) \notin {yielded'[n].closedAt : n \in 1..Len(yielded')}]_vars

\* C28 witness: the sentinel ended decoding while the record still held the
\* falsy payload of a data line that a blank line had followed.
C28_Witness ==
    /\ exit = "sentinel" /\ lineNo = 3 /\ yielded = <<>>
    /\ SentLines[1] = DNull /\ SentLines[2] = BLANK
    /\ currentEvent.data = JSONParse(NullText).value

ParsedValue(l) == JSONParse(Slice(l, 6)).value

IsFieldLine(l) == StartsWith(l, IdPrefix) \/ StartsWith(l, EventPrefix)

\* The lines ls without their id: and event: lines
StripFields(ls) == SelectSeq(ls, LAMBDA l : ~IsFieldLine(l))

\* The event ev without its id and event
NoFields(ev) == [ev EXCEPT !.id = None, !.event = None]

\* C27: every run of the for-loop suspends with the same outcome and the same
\* payload as its run over the same lines without their id: and event: lines
\* from the same record without id and event, leaving the same lines to
\* process, so the payloads yielded are those of the stream without these
\* lines; and every payload yielded is the value of a data line.
C27_FieldsDoNotMatter ==
    /\ [](yielded # <<>> =>
            LET L == SentLines IN
            \A n \in 1..Len(yielded) :
                \E j \in 1..Len(L) : ParsedOK(L[j]) /\ yielded[n].data = ParsedValue(L[j]))
    /\ [][LoopStep =>
            \A ls \in {LoopLines} :
            \A a \in {RunLines(LoopEvent, ls, 0)} :
            \A b \in {RunLines(NoFields(LoopEvent), StripFields(ls), 0)} :
            /\ Performed(LoopEvent, ls)
            /\ a.out = b.out
            /\ a.ev.data = b.ev.data
            /\ StripFields(a.lines) = b.lines]_vars

\* C27 witness: a record holding an id: line and an event: line was yielded.
C27_Witness ==
    /\ SentLines = <<ID7, EVm, D1, BLANK>>
    /\ pc = "yield" /\ yielded = <<[data |-> ParsedValue(D1), closedAt |-> 4]>>
    /\ currentEvent.id # None /\ currentEvent.event # None

----------------------------------------------------------------------------
(* Further claims about buildSpanHierarchy and the traces screen *)

VisitedIds == [k \in 1..Len(visited) |-> visited[k].id]

\* C30: for every span list, cyclic or not, no span that is its own ancestor
\* can be reached from the root list, the traversal from the root list
\* ends, and it renders the reachable spans, each once.
C30_CyclesNeverRendered ==
    /\ tpc \in {"done", "rendered"} => \A x \in Reachable : ~OnCycle(x)
    /\ tpc = "done" => ENABLED RenderTimeline
    /\ tpc = "rendered" =>
          /\ Range(VisitedIds) = Reachable
          /\ \A x \in InputIds : Occurrences(VisitedIds, x) <= 1

\* C30 witness: a trace with two spans that are each other's parent and a
\* root was rendered.
C30_Witness ==
    /\ tpc = "rendered" /\ visited # <<>>
    /\ \E x, y \in InputIds :
          /\ x # y /\ OnCycle(x) /\ OnCycle(y)
          /\ spanMap[x].span.parent_id = y /\ spanMap[y].span.parent_id = x

\* The response the latest completed fetch delivered
Delivered == lastResponse.response[1]

\* C21: after a page fetch was applied the stored total is the total its
\* response reported, in the memory screen, in the memory browser (loadMemory
\* and loadMore) and in the traces screen.
C21_TotalIsLatest ==
    /\ []((screen = "memory" /\ lastResponse.by = "loadMessages"
            /\ Delivered.shape.mode = "messages" /\ Delivered.shape.hasMessages)
           => messagesTotal = Delivered.total)
    /\ []((screen = "browser" /\ lastResponse.by \in {"loadMemory", "loadMore"})
           => browserPagination.total = Delivered.total)
    /\ [][TracesArrive =>
            \E i \in 1..Len(tracesRequests) :
                /\ tracesRequests[i].kind = "getTraces" /\ tracesRequests[i].answer # <<>>
                /\ tracesRequests' = Remove(tracesRequests, i)
                /\ tracesPagination'.total = tracesRequests[i].answer[1].total]_vars

\* C24: a tick of the refresh timer issues getTraces for the current limit
\* and offset when a displayed trace is running, and changes nothing when
\* none is.
C24_TickReloadsIffRunning ==
    [][AutoRefreshTick =>
        IF \E k \in 1..Len(traces) : StatusOf(traces[k]) = "running"
        THEN /\ Len(tracesRequests') = Len(tracesRequests) + 1
             /\ IssuesGetTraces(tracesPagination.limit, tracesPagination.offset)
             /\ tracesLoading'
             /\ UNCHANGED <<traces, tracesPagination>>
        ELSE UNCHANGED vars]_vars

\* C24 witness: on a single page holding a running trace, with no deletion
\* asked for, two reloads are in flight: the later one was started by a tick.
C24_Witness ==
    /\ screen = "traces" /\ Len(backendTraces) = 2 /\ deleteClicks = 0
    /\ \E k \in 1..Len(traces) : StatusOf(traces[k]) = "running"
    /\ Len(tracesRequests) = 2
    /\ \A i \in 1..2 : tracesRequests[i].kind = "getTraces"

\* The page of the current offset as the backend holds it
CurrentTracesPage ==
    TracesResponse(backendTraces, tracesPagination.limit, tracesPagination.offset).traces

\* C22: the response of every getTraces call in flight that the backend has
\* answered can be applied next, whatever calls were issued after it and
\* whatever the current offset is: the step that takes it sets the list and
\* the total to those of that response.
C22_StaleResponseApplied ==
    screen = "traces" =>
        \A i \in 1..Len(tracesRequests) :
            (tracesRequests[i].kind = "getTraces" /\ tracesRequests[i].answer # <<>>) =>
                ENABLED (/\ TracesArrive
                         /\ tracesRequests' = Remove(tracesRequests, i)
                         /\ traces' = tracesRequests[i].answer[1].traces
                         /\ tracesPagination'.total = tracesRequests[i].answer[1].total)

\* C22 witness: with no deletion asked for, no call in flight and no failure
\* since the last call was issued, the list displayed is not the page of the
\* current offset: the response of an earlier call was applied last.
C22_Witness ==
    /\ screen = "traces" /\ deleteClicks = 0 /\ tracesRequests = <<>>
    /\ tracesError = Null
    /\ traces # <<>> /\ traces # CurrentTracesPage

\* The displayed lists and the pagination states are left as they are
ListsKept == UNCHANGED <<traces, tracesPagination, entries, browserPagination>>

\* C26 as stated: a failed loadTraces, deleteTrace or getMemory of the memory
\* browser leaves the displayed list and the pagination unchanged, and the
\* loading flag is false after it.
C26_FailureKeepsState ==
    [][(TracesFail \/ DeleteFail \/ GetMemoryFail) =>
        /\ ListsKept
        /\ ~tracesLoading' /\ ~browserLoading']_vars

\* C26 amended: the same, but a failed deleteTrace leaves the loading flag as
\* it is (it is true afterwards when a list fetch is still in flight); a
\* failure in the traces screen sets the error message.
C26_FailureKeepsStateLoadingKept ==
    [][/\ (TracesFail \/ GetMemoryFail) =>
            /\ ListsKept
            /\ ~tracesLoading' /\ ~browserLoading'
       /\ DeleteFail => (ListsKept /\ UNCHANGED tracesLoading)
       /\ (TracesFail \/ DeleteFail) => tracesError' # Null]_vars

\* C26 witness: a delete request failed while a reload was in flight: the
\* list is still displayed, the error is set and the loading flag is true.
C26_Witness ==
    /\ screen = "traces" /\ tracesError # Null /\ tracesLoading /\ traces # <<>>
    /\ \E i \in 1..Len(tracesRequests) : tracesRequests[i].kind = "getTraces"

----------------------------------------------------------------------------
(* Further claims about the memory screen *)

\* No getConversationMessages call is in flight
NoMessageFetch == \A i \in 1..Len(memoryRequests) : memoryRequests[i].kind # "loadMessages"

\* C25: in the memory screen, when no message fetch is in flight, every
\* message displayed is of the selected conversation at the current offset.
C25_MessagesAreCurrent ==
    (screen = "memory" /\ selectedConversationId # Null /\ NoMessageFetch) =>
        \A k \in 1..Len(messages) :
            /\ messages[k][1] = selectedConversationId
            /\ messages[k][2] = messagesOffset

====
